---------------------------- MODULE Spec2Model ----------------------------
(***************************************************************************)
(* The input mode state machine and the turn pipeline of rogue_thing.      *)
(*                                                                         *)
(* State: the handler the top-level loop dispatches events to, the engine  *)
(* the handlers share, the save file "savegame.sav", the process status,  *)
(* the list of engine / file calls made while the last event was handled,  *)
(* what handle_events returned for that event, and the events of the      *)
(* batch tcod.event.wait() delivered that are still to be handled.         *)
(*                                                                         *)
(* src/input_handlers.py and src/setup_game.py are modelled statement by   *)
(* statement, slips included (NameError in new_game, the unbound local in  *)
(* InventoryEventHandler.ev_keydown, event.title, traceback.format_exec).  *)
(* engine.py, actions.py, exceptions.py, message_log.py, game_map.py and   *)
(* the item components are not part of the sources at hand: what the       *)
(* handlers need of them is modelled from spec.md and marked so.           *)
(*                                                                         *)
(* src/main.py as committed cannot start (line 56 has no colon, line 10    *)
(* names an undefined module) and its event block (lines 41-50) follows    *)
(* the endless frame loop.  The model reads main() as the loop it sets out *)
(* to be: one frame, then one event handled by lines 41-58.  Line 44 drops *)
(* the handler that handle_events returns; Spec feeds the returned handler *)
(* back (the contract handle(mode, event) -> mode'), MainSpec keeps        *)
(* main()'s local variable as line 44 leaves it.                           *)
(*                                                                         *)
(* CursorSpec runs the targeting cursor on the 80 x 43 map of new_game,    *)
(* HistorySpec the history view over logs of up to MaxHistory entries.     *)
(***************************************************************************)
EXTENDS Integers, Sequences, FiniteSets, TLC

VARIABLES handler, engine, file, proc, calls, returned, pending

vars == <<handler, engine, file, proc, calls, returned, pending>>

----------------------------------------------------------------------------
(* Bounds of the model *)

\* most messages (repeats counted) the message log holds
MaxMsgs == 3
\* most items the inventory holds
MaxItems == 1
\* most events one call of tcod.event.wait() delivers
MaxBatch == 2
\* most entries of the message log of a saved game whose history is viewed
MaxHistory == 12

----------------------------------------------------------------------------
(* tcod.event.KeySym and tcod.event.Modifier values the handlers name *)

KeySym ==
  [ A |-> 97, B |-> 98, C |-> 99, D |-> 100, F |-> 102, G |-> 103, H |-> 104,
    I |-> 105, J |-> 106, K |-> 107, L |-> 108, N |-> 110, Q |-> 113,
    U |-> 117, V |-> 118, Y |-> 121, Z |-> 122, LEFTBRACE |-> 123,
    ESCAPE |-> 27, RETURN |-> 13, SPACE |-> 32, PERIOD |-> 46, SLASH |-> 47,
    RIGHT |-> 1073741903, LEFT |-> 1073741904, DOWN |-> 1073741905,
    UP |-> 1073741906, HOME |-> 1073741898, PAGEUP |-> 1073741899,
    END |-> 1073741901, PAGEDOWN |-> 1073741902, KP_ENTER |-> 1073741912,
    KP_1 |-> 1073741913, KP_2 |-> 1073741914, KP_3 |-> 1073741915,
    KP_4 |-> 1073741916, KP_5 |-> 1073741917, KP_6 |-> 1073741918,
    KP_7 |-> 1073741919, KP_8 |-> 1073741920, KP_9 |-> 1073741921,
    CLEAR |-> 1073741980, LCTRL |-> 1073742048, LSHIFT |-> 1073742049,
    LALT |-> 1073742050, RCTRL |-> 1073742052, RSHIFT |-> 1073742053,
    RALT |-> 1073742054 ]

Modifier == {"LSHIFT", "RSHIFT", "LCTRL", "RCTRL", "LALT", "RALT"}

\* MOVE_KEYS with the vectors of the vi keys y and u exchanged
MOVE_KEYS_yu_exchanged ==
  ( KeySym.UP :> <<0, -1>> @@ KeySym.DOWN :> <<0, 1>> @@
    KeySym.LEFT :> <<-1, 0>> @@ KeySym.RIGHT :> <<1, 0>> @@
    KeySym.HOME :> <<-1, -1>> @@ KeySym.END :> <<-1, 1>> @@
    KeySym.PAGEUP :> <<1, -1>> @@ KeySym.PAGEDOWN :> <<1, 1>> @@
    KeySym.KP_1 :> <<-1, 1>> @@ KeySym.KP_2 :> <<0, 1>> @@
    KeySym.KP_3 :> <<1, 1>> @@ KeySym.KP_4 :> <<-1, 0>> @@
    KeySym.KP_6 :> <<1, 0>> @@ KeySym.KP_7 :> <<-1, -1>> @@
    KeySym.KP_8 :> <<0, -1>> @@ KeySym.KP_9 :> <<1, -1>> @@
    KeySym.H :> <<-1, 0>> @@ KeySym.J :> <<0, 1>> @@
    KeySym.K :> <<0, -1>> @@ KeySym.L :> <<1, 0>> @@
    KeySym.Y :> <<1, -1>> @@ KeySym.U :> <<-1, -1>> @@
    KeySym.B :> <<-1, 1>> @@ KeySym.N :> <<1, 1>> )

\* MOVE_KEYS: key -> (dx, dy)
MOVE_KEYS ==
  ( KeySym.UP :> <<0, -1>> @@ KeySym.DOWN :> <<0, 1>> @@
    KeySym.LEFT :> <<-1, 0>> @@ KeySym.RIGHT :> <<1, 0>> @@
    KeySym.HOME :> <<-1, -1>> @@ KeySym.END :> <<-1, 1>> @@
    KeySym.PAGEUP :> <<1, -1>> @@ KeySym.PAGEDOWN :> <<1, 1>> @@
    KeySym.KP_1 :> <<-1, 1>> @@ KeySym.KP_2 :> <<0, 1>> @@
    KeySym.KP_3 :> <<1, 1>> @@ KeySym.KP_4 :> <<-1, 0>> @@
    KeySym.KP_6 :> <<1, 0>> @@ KeySym.KP_7 :> <<-1, -1>> @@
    KeySym.KP_8 :> <<0, -1>> @@ KeySym.KP_9 :> <<1, -1>> @@
    KeySym.H :> <<-1, 0>> @@ KeySym.J :> <<0, 1>> @@
    KeySym.K :> <<0, -1>> @@ KeySym.L :> <<1, 0>> @@
    KeySym.Y :> <<-1, -1>> @@ KeySym.U :> <<1, -1>> @@
    KeySym.B :> <<-1, 1>> @@ KeySym.N :> <<1, 1>> )

WAIT_KEYS == {KeySym.PERIOD, KeySym.KP_5, KeySym.CLEAR}

CONFIRM_KEYS == {KeySym.RETURN, KeySym.KP_ENTER}

CURSOR_Y_KEYS ==
  ( KeySym.UP :> -1 @@ KeySym.DOWN :> 1 @@
    KeySym.PAGEUP :> -10 @@ KeySym.PAGEDOWN :> 10 )

----------------------------------------------------------------------------
(* Events *)

NoTile == <<0, 0>>

KeyDown(sym, mod) ==
  [type |-> "KeyDown", sym |-> sym, mod |-> mod, tile |-> NoTile, button |-> 0]

MouseMotion(tile) ==
  [type |-> "MouseMotion", sym |-> 0, mod |-> {}, tile |-> tile, button |-> 0]

MouseButtonDown(tile, button) ==
  [type |-> "MouseButtonDown", sym |-> 0, mod |-> {}, tile |-> tile,
   button |-> button]

Quit == [type |-> "Quit", sym |-> 0, mod |-> {}, tile |-> NoTile, button |-> 0]

\* an event type no handler overrides (key up, window events, ...)
KeyUp == [type |-> "KeyUp", sym |-> 0, mod |-> {}, tile |-> NoTile, button |-> 0]

----------------------------------------------------------------------------
(* The engine and what it owns (engine.py, entity.py, game_map.py and      *)
(* message_log.py, as spec.md sections 3, 4.2, 4.3 and 6 describe them).   *)

ItemKinds == {"instant", "single", "area"}

\* Engine: player (x, y, is_alive, inventory.items), game_map (width, height),
\* the tile visibility was last computed from, message_log.messages and
\* mouse_location.  NoEngine stands for "no engine has been built".
NoEngine ==
  [exists |-> FALSE, px |-> 0, py |-> 0, is_alive |-> FALSE, items |-> <<>>,
   width |-> 0, height |-> 0, fov |-> <<0, 0>>, messages |-> <<>>,
   mouse_location |-> <<0, 0>>]

\* The engine a save file written by an earlier session holds: a 2 x 2 map,
\* the player alive at (0, 1), one welcome message in the log.
SavedEngine ==
  [exists |-> TRUE, px |-> 0, py |-> 1, is_alive |-> TRUE, items |-> <<>>,
   width |-> 2, height |-> 2, fov |-> <<0, 1>>,
   messages |-> << [text |-> "Welcome...", count |-> 1] >>,
   mouse_location |-> <<0, 0>>]

\* new_game: the size of the map a game is played on
map_width == 80

map_height == 43

\* A saved engine on a map of full size: the player alive at (10, 10), the
\* given items in the inventory.
FullMapEngine(items) ==
  [SavedEngine EXCEPT !.px = 10, !.py = 10, !.fov = <<10, 10>>,
                      !.width = map_width, !.height = map_height,
                      !.items = items]

\* A saved engine whose message log has n entries: the welcome message, then
\* messages of rejected actions and invalid inventory entries by turns.
HistoryEngine(n) ==
  [SavedEngine EXCEPT
     !.messages = [i \in 1..n |->
                     [text |-> IF i = 1 THEN "Welcome..."
                               ELSE IF i % 2 = 0 THEN "Impossible"
                               ELSE "Invalid entry",
                      count |-> 1]]]

\* GameMap.in_bounds
in_bounds(e, x, y) == 0 <= x /\ x < e.width /\ 0 <= y /\ y < e.height

Tiles(e) == {<<x, y>> : x \in 0..(e.width - 1), y \in 0..(e.height - 1)}

\* MessageLog.add_message: a message equal to the last entry raises that
\* entry's count, any other message is appended with count 1.
add_message(log, text) ==
  IF Len(log) > 0 /\ log[Len(log)].text = text
  THEN [log EXCEPT ![Len(log)].count = @ + 1]
  ELSE Append(log, [text |-> text, count |-> 1])

RECURSIVE MessageCount(_)
\* messages added to a log, repeats included
MessageCount(log) ==
  IF log = <<>> THEN 0
  ELSE log[Len(log)].count + MessageCount(SubSeq(log, 1, Len(log) - 1))

\* a sequence without its i-th element (list.remove of that item)
RemoveAt(seq, i) ==
  [k \in 1..(Len(seq) - 1) |-> IF k < i THEN seq[k] ELSE seq[k + 1]]

\* Engine.update_fov: visibility is recomputed from the player's tile
update_fov(e) == [e EXCEPT !.fov = <<e.px, e.py>>]

\* Engine.handle_enemy_turns: every other actor acts; the player may die
handle_enemy_turns(e) == {e, [e EXCEPT !.is_alive = FALSE]}

(* Actions *)
NoAction == [kind |-> "None", dx |-> 0, dy |-> 0, item |-> 0, xy |-> <<0, 0>>]
BumpAction(dx, dy) == [NoAction EXCEPT !.kind = "Bump", !.dx = dx, !.dy = dy]
WaitAction == [NoAction EXCEPT !.kind = "Wait"]
PickupAction == [NoAction EXCEPT !.kind = "Pickup"]
TakeStairsAction == [NoAction EXCEPT !.kind = "TakeStairs"]
\* DropItem(player, item), the item named by its place in the inventory
DropItem(item) == [NoAction EXCEPT !.kind = "Drop", !.item = item]
\* the action an item's use-effect yields, with the tile it is aimed at
ItemAction(item, xy) == [NoAction EXCEPT !.kind = "Item", !.item = item, !.xy = xy]

Ok(e) == [exc |-> "none", e |-> e]
Impossible(e) == [exc |-> "Impossible", e |-> e]

\* Action.perform: the outcomes of submitting action a to engine e.  A
\* rejected action raises Impossible and changes nothing (spec.md 4.2).
perform(e, a) ==
  CASE a.kind = "Bump" ->
         {Impossible(e)} \cup
         (IF in_bounds(e, e.px + a.dx, e.py + a.dy)
          THEN {Ok(e), Ok([e EXCEPT !.px = @ + a.dx, !.py = @ + a.dy])}
          ELSE {})
    [] a.kind = "Wait" -> {Ok(e)}
    [] a.kind = "Pickup" ->
         {Impossible(e)} \cup
         (IF Len(e.items) < MaxItems
          THEN {Ok([e EXCEPT !.items = Append(@, k)]) : k \in ItemKinds}
          ELSE {})
    [] a.kind = "Drop" -> {Ok([e EXCEPT !.items = RemoveAt(@, a.item)])}
    [] a.kind = "Item" ->
         {Impossible(e), Ok([e EXCEPT !.items = RemoveAt(@, a.item)])}
    [] a.kind = "TakeStairs" ->
         {Impossible(e)} \cup
         {Ok([e EXCEPT !.px = t[1], !.py = t[2]]) : t \in Tiles(e)}

\* Engine.save_as and load_game's unpickling: what the file holds is the
\* engine itself, whatever state it is in.
NoFile == [kind |-> "absent", e |-> NoEngine]
CorruptFile == [kind |-> "corrupt", e |-> NoEngine]
\* a well-formed pickle of something that is not an Engine
OtherFile == [kind |-> "other", e |-> NoEngine]
save_as(e) == [kind |-> "engine", e |-> e]

----------------------------------------------------------------------------
(* Handlers.  A handler is its class and the fields its class adds; the    *)
(* engine an EventHandler holds is the one engine of the session.          *)
(* What a method works on is s = [e: engine, file: save file, calls: the   *)
(* engine and file calls made so far for this event]; what it yields is a  *)
(* set of results, one per outcome: a handler, an action, None or a raised *)
(* exception, each with s as the method left it.                           *)

Handler(cls) ==
  [cls |-> cls, parent |-> "none", text |-> "", item |-> 0, cursor |-> 0,
   log_length |-> 0]

NoHandler == Handler("none")

\* subclasses of input_handlers.EventHandler
EventHandlerClasses ==
  {"MainGameEventHandler", "InventoryActivateHandler", "InventoryDropHandler",
   "LookHandler", "SingleRangedAttackHandler", "AreaRangedAttackHandler",
   "GameOverEventHandler", "HistoryViewer"}

InventoryClasses == {"InventoryActivateHandler", "InventoryDropHandler"}

SelectIndexClasses ==
  {"LookHandler", "SingleRangedAttackHandler", "AreaRangedAttackHandler"}

Call(s, name) == [s EXCEPT !.calls = Append(@, name)]

RNone(s) == [tag |-> "None", h |-> NoHandler, a |-> NoAction, exc |-> "none", s |-> s]
RHandler(h, s) == [RNone(s) EXCEPT !.tag = "Handler", !.h = h]
RAction(a, s) == [RNone(s) EXCEPT !.tag = "Action", !.a = a]
RRaise(exc, s) == [RNone(s) EXCEPT !.tag = "Raise", !.exc = exc]

MainMenu == Handler("MainMenu")

PopupMessage(parent, text) ==
  [Handler("PopupMessage") EXCEPT !.parent = parent.cls, !.text = text]

MainGameEventHandler == Handler("MainGameEventHandler")

GameOverEventHandler == Handler("GameOverEventHandler")

InventoryActivateHandler == Handler("InventoryActivateHandler")

InventoryDropHandler == Handler("InventoryDropHandler")

\* HistoryViewer.__init__
HistoryViewer(e) ==
  [Handler("HistoryViewer") EXCEPT !.log_length = Len(e.messages),
                                   !.cursor = Len(e.messages) - 1]

\* SelectIndexHandler.__init__: the cursor is set to the player's tile
SelectIndexHandler_init(s) == [s EXCEPT !.e.mouse_location = <<s.e.px, s.e.py>>]

LookHandler == Handler("LookHandler")

\* the ranged-attack handlers keep the callback of the item that made them
SingleRangedAttackHandler(item) ==
  [Handler("SingleRangedAttackHandler") EXCEPT !.item = item]

AreaRangedAttackHandler(item) ==
  [Handler("AreaRangedAttackHandler") EXCEPT !.item = item]

\* PopupMessage.ev_keydown
PopupMessage_ev_keydown(h, s, ev) == {RHandler(Handler(h.parent), s)}

\* BaseEventHandler.ev_quit
BaseEventHandler_ev_quit(h, s, ev) == {RRaise("SystemExit", s)}

\* EventHandler.ev_mousemotion
EventHandler_ev_mousemotion(h, s, ev) ==
  IF in_bounds(s.e, ev.tile[1], ev.tile[2])
  THEN {RNone([s EXCEPT !.e.mouse_location = <<ev.tile[1], ev.tile[2]>>])}
  ELSE {RNone(s)}

\* on_exit returning None: the ask-user mode is kept
AskUserEventHandler_on_exit_stay(h, s) == {RNone(s)}

\* AskUserEventHandler.on_exit
AskUserEventHandler_on_exit(h, s) == {RHandler(MainGameEventHandler, s)}

\* AskUserEventHandler.ev_keydown
AskUserEventHandler_ev_keydown(h, s, ev) ==
  IF ev.sym \in {KeySym.LSHIFT, KeySym.RSHIFT, KeySym.LCTRL, KeySym.RCTRL,
                 KeySym.LALT, KeySym.RALT}
  THEN {RNone(s)}
  ELSE AskUserEventHandler_on_exit(h, s)

\* AskUserEventHandler.ev_mousebuttondown
AskUserEventHandler_ev_mousebuttondown(h, s, ev) == AskUserEventHandler_on_exit(h, s)

\* item.consumable.get_action(player): an item's use-effect is an action or
\* a targeting handler that holds the item's callback
Consumable_get_action(s, item) ==
  CASE s.e.items[item] = "instant" -> {RAction(ItemAction(item, <<s.e.px, s.e.py>>), s)}
    [] s.e.items[item] = "single" ->
         {RHandler(SingleRangedAttackHandler(item), SelectIndexHandler_init(s))}
    [] s.e.items[item] = "area" ->
         {RHandler(AreaRangedAttackHandler(item), SelectIndexHandler_init(s))}

\* InventoryActivateHandler.on_item_selected, InventoryDropHandler.on_item_selected
on_item_selected(h, s, item) ==
  IF h.cls = "InventoryActivateHandler"
  THEN Consumable_get_action(s, item)
  ELSE {RAction(DropItem(item), s)}

\* InventoryEventHandler.ev_keydown.  items[index] is Python's 0-based
\* lookup; after an IndexError selected_item is unbound and line 245 raises.
InventoryEventHandler_ev_keydown(h, s, ev) ==
  LET index == ev.sym - KeySym.A IN
  IF 0 <= index /\ index <= 26
  THEN IF index < Len(s.e.items)
       THEN on_item_selected(h, s, index + 1)
       ELSE {RRaise("UnboundLocalError",
                    Call([s EXCEPT !.e.messages = add_message(@, "Invalid entry")],
                         "add_message"))}
  ELSE AskUserEventHandler_ev_keydown(h, s, ev)

min(a, b) == IF a <= b THEN a ELSE b

max(a, b) == IF a >= b THEN a ELSE b

\* the ranged-attack callbacks, Callable[[Tuple[int, int]], Optional[Action]]:
\* the item's action aimed at the tile, or None
callback(h, s, xy) == {RAction(ItemAction(h.item, xy), s), RNone(s)}

\* LookHandler / SingleRangedAttackHandler / AreaRangedAttackHandler
\* .on_index_selected
on_index_selected(h, s, x, y) ==
  IF h.cls = "LookHandler"
  THEN {RHandler(MainGameEventHandler, s)}
  ELSE callback(h, s, <<x, y>>)

\* the modifier of lines 290-296 with "+=" for "*=": held modifiers add up
KeyModifier_additive(mod) ==
  1 + (IF mod \cap {"LSHIFT", "RSHIFT"} # {} THEN 5 ELSE 0)
    + (IF mod \cap {"LCTRL", "RCTRL"} # {} THEN 10 ELSE 0)
    + (IF mod \cap {"LALT", "RALT"} # {} THEN 20 ELSE 0)

\* the modifier product of SelectIndexHandler.ev_keydown (lines 290-296)
KeyModifier(mod) ==
  (IF mod \cap {"LSHIFT", "RSHIFT"} # {} THEN 5 ELSE 1)
  * (IF mod \cap {"LCTRL", "RCTRL"} # {} THEN 10 ELSE 1)
  * (IF mod \cap {"LALT", "RALT"} # {} THEN 20 ELSE 1)

\* SelectIndexHandler.ev_keydown without the clamp of lines 303-304
SelectIndexHandler_ev_keydown_no_clamp(h, s, ev) ==
  LET key == ev.sym IN
  IF key \in DOMAIN MOVE_KEYS
  THEN LET modifier == KeyModifier(ev.mod)
           x == s.e.mouse_location[1] + MOVE_KEYS[key][1] * modifier
           y == s.e.mouse_location[2] + MOVE_KEYS[key][2] * modifier
       IN {RNone([s EXCEPT !.e.mouse_location = <<x, y>>])}
  ELSE IF key \in CONFIRM_KEYS
       THEN on_index_selected(h, s, s.e.mouse_location[1], s.e.mouse_location[2])
       ELSE AskUserEventHandler_ev_keydown(h, s, ev)

\* SelectIndexHandler.ev_keydown
SelectIndexHandler_ev_keydown(h, s, ev) ==
  LET key == ev.sym IN
  IF key \in DOMAIN MOVE_KEYS
  THEN LET modifier == KeyModifier(ev.mod)
           x0 == s.e.mouse_location[1] + MOVE_KEYS[key][1] * modifier
           y0 == s.e.mouse_location[2] + MOVE_KEYS[key][2] * modifier
           x == max(0, min(x0, s.e.width - 1))
           y == max(0, min(y0, s.e.height - 1))
       IN {RNone([s EXCEPT !.e.mouse_location = <<x, y>>])}
  ELSE IF key \in CONFIRM_KEYS
       THEN on_index_selected(h, s, s.e.mouse_location[1], s.e.mouse_location[2])
       ELSE AskUserEventHandler_ev_keydown(h, s, ev)

\* SelectIndexHandler.ev_mousebuttondown: line 315 reads event.title, which
\* no MouseButtonDown event has
SelectIndexHandler_ev_mousebuttondown(h, s, ev) == {RRaise("AttributeError", s)}

\* MainGameEventHandler.ev_keydown
MainGameEventHandler_ev_keydown(h, s, ev) ==
  LET key == ev.sym IN
  IF key = KeySym.PERIOD /\ ev.mod \cap {"LSHIFT", "RSHIFT"} # {}
  THEN {RAction(TakeStairsAction, s)}
  ELSE IF key \in DOMAIN MOVE_KEYS
       THEN {RAction(BumpAction(MOVE_KEYS[key][1], MOVE_KEYS[key][2]), s)}
  ELSE IF key \in WAIT_KEYS THEN {RAction(WaitAction, s)}
  ELSE IF key = KeySym.ESCAPE THEN {RRaise("SystemExit", s)}
  ELSE IF key = KeySym.V THEN {RHandler(HistoryViewer(s.e), s)}
  ELSE IF key = KeySym.G THEN {RAction(PickupAction, s)}
  ELSE IF key = KeySym.I THEN {RHandler(InventoryActivateHandler, s)}
  ELSE IF key = KeySym.D THEN {RHandler(InventoryDropHandler, s)}
  ELSE IF key = KeySym.SLASH
       THEN {RHandler(LookHandler, SelectIndexHandler_init(s))}
  ELSE {RNone(s)}

\* on_quit without the os.remove of lines 415-416
GameOverEventHandler_on_quit_keep_save(h, s) == {RRaise("QuitWithoutSaving", s)}

\* GameOverEventHandler.on_quit
GameOverEventHandler_on_quit(h, s) ==
  IF s.file.kind # "absent"
  THEN {RRaise("QuitWithoutSaving", Call([s EXCEPT !.file = NoFile], "remove"))}
  ELSE {RRaise("QuitWithoutSaving", s)}

\* GameOverEventHandler.ev_quit
GameOverEventHandler_ev_quit(h, s, ev) == GameOverEventHandler_on_quit(h, s)

\* GameOverEventHandler.ev_keydown with "return MainGameEventHandler(self.engine)"
\* for keys other than Escape: play goes on after the player's death
GameOverEventHandler_ev_keydown_play_on(h, s, ev) ==
  IF ev.sym = KeySym.ESCAPE
  THEN GameOverEventHandler_on_quit(h, s)
  ELSE {RHandler(MainGameEventHandler, s)}

\* GameOverEventHandler.ev_keydown
GameOverEventHandler_ev_keydown(h, s, ev) ==
  IF ev.sym = KeySym.ESCAPE THEN GameOverEventHandler_on_quit(h, s) ELSE {RNone(s)}

\* the cursor of HistoryViewer.ev_keydown without the clamp of line 464
HistoryViewer_cursor_no_clamp(h, sym) ==
  IF sym \in DOMAIN CURSOR_Y_KEYS
  THEN LET adjust == CURSOR_Y_KEYS[sym] IN
       IF adjust < 0 /\ h.cursor = 0 THEN h.log_length - 1
       ELSE IF adjust > 0 /\ h.cursor = h.log_length - 1 THEN 0
       ELSE h.cursor + adjust
  ELSE IF sym = KeySym.HOME THEN 0
  ELSE h.log_length - 1

\* HistoryViewer.ev_keydown; the cursor is a field of the handler, so a
\* cursor move yields None and leaves the handler changed
HistoryViewer_cursor(h, sym) ==
  IF sym \in DOMAIN CURSOR_Y_KEYS
  THEN LET adjust == CURSOR_Y_KEYS[sym] IN
       IF adjust < 0 /\ h.cursor = 0 THEN h.log_length - 1
       ELSE IF adjust > 0 /\ h.cursor = h.log_length - 1 THEN 0
       ELSE max(0, min(h.cursor + adjust, h.log_length - 1))
  ELSE IF sym = KeySym.HOME THEN 0
  ELSE h.log_length - 1

HistoryViewer_ev_keydown(h, s, ev) ==
  IF ev.sym \in DOMAIN CURSOR_Y_KEYS \cup {KeySym.HOME, KeySym.END}
  THEN {[RNone(s) EXCEPT !.h = [h EXCEPT !.cursor = HistoryViewer_cursor(h, ev.sym)]]}
  ELSE {RHandler(MainGameEventHandler, s)}

----------------------------------------------------------------------------
(* setup_game.py *)

\* new_game: line 33 reads enitity_factories, a name the module never binds
new_game(s) == {RRaise("NameError", s)}

\* str(exc) of the exceptions load_game raises: a bare assert has no text
str(exc) ==
  CASE exc = "AssertionError" -> ""
    [] exc = "LZMAError" -> "Input format not supported by decoder"
    [] exc = "FileNotFoundError" -> "[Errno 2] No such file or directory: 'savegame.sav'"

\* load_game: open() fails on a missing file, lzma / pickle fail on a blob
\* they cannot read, the assert fails on anything that is not an Engine
load_game(s) ==
  CASE s.file.kind = "absent" -> RRaise("FileNotFoundError", s)
    [] s.file.kind = "corrupt" -> RRaise("LZMAError", s)
    [] s.file.kind = "other" -> RRaise("AssertionError", s)
    [] s.file.kind = "engine" -> RNone(Call([s EXCEPT !.e = s.file.e], "load_game"))

\* MainMenu.ev_keydown with "except Exception: pass" for lines 109-111: a
\* load failure other than a missing file is swallowed
MainMenu_ev_keydown_swallow(h, s, ev) ==
  IF ev.sym \in {KeySym.Q, KeySym.ESCAPE} THEN {RRaise("SystemExit", s)}
  ELSE IF ev.sym = KeySym.C
       THEN LET l == load_game(s) IN
            IF l.tag # "Raise" THEN {RHandler(MainGameEventHandler, l.s)}
            ELSE IF l.exc = "FileNotFoundError"
                 THEN {RHandler(PopupMessage(h, "No saved games to load."), s)}
                 ELSE {RNone(s)}
  ELSE IF ev.sym = KeySym.N
       THEN {IF r.tag = "Raise" THEN r ELSE RHandler(MainGameEventHandler, r.s) :
               r \in new_game(s)}
  ELSE {RNone(s)}

\* MainMenu.ev_keydown
MainMenu_ev_keydown(h, s, ev) ==
  IF ev.sym \in {KeySym.Q, KeySym.ESCAPE} THEN {RRaise("SystemExit", s)}
  ELSE IF ev.sym = KeySym.C
       THEN LET l == load_game(s) IN
            IF l.tag # "Raise" THEN {RHandler(MainGameEventHandler, l.s)}
            ELSE IF l.exc = "FileNotFoundError"
                 THEN {RHandler(PopupMessage(h, "No saved games to load."), s)}
                 ELSE {RHandler(PopupMessage(h, "Failed to load save:\n" \o str(l.exc)), s)}
  ELSE IF ev.sym = KeySym.N
       THEN {IF r.tag = "Raise" THEN r ELSE RHandler(MainGameEventHandler, r.s) :
               r \in new_game(s)}
  ELSE {RNone(s)}

----------------------------------------------------------------------------
(* Dispatch and the two handle_events *)

\* tcod.event.EventDispatch.dispatch: the ev_* method of the handler's class
\* for the event's type; a type the class does not override yields None
dispatch(h, s, ev) ==
  CASE ev.type = "KeyDown" ->
         (CASE h.cls = "MainMenu" -> MainMenu_ev_keydown(h, s, ev)
            [] h.cls = "PopupMessage" -> PopupMessage_ev_keydown(h, s, ev)
            [] h.cls = "MainGameEventHandler" -> MainGameEventHandler_ev_keydown(h, s, ev)
            [] h.cls \in InventoryClasses -> InventoryEventHandler_ev_keydown(h, s, ev)
            [] h.cls \in SelectIndexClasses -> SelectIndexHandler_ev_keydown(h, s, ev)
            [] h.cls = "GameOverEventHandler" -> GameOverEventHandler_ev_keydown(h, s, ev)
            [] h.cls = "HistoryViewer" -> HistoryViewer_ev_keydown(h, s, ev))
    [] ev.type = "MouseMotion" ->
         IF h.cls \in EventHandlerClasses
         THEN EventHandler_ev_mousemotion(h, s, ev)
         ELSE {RNone(s)}
    [] ev.type = "MouseButtonDown" ->
         (CASE h.cls \in InventoryClasses -> AskUserEventHandler_ev_mousebuttondown(h, s, ev)
            [] h.cls \in SelectIndexClasses -> SelectIndexHandler_ev_mousebuttondown(h, s, ev)
            [] OTHER -> {RNone(s)})
    [] ev.type = "Quit" ->
         IF h.cls = "GameOverEventHandler"
         THEN GameOverEventHandler_ev_quit(h, s, ev)
         ELSE BaseEventHandler_ev_quit(h, s, ev)
    [] OTHER -> {RNone(s)}

\* handle_action without the "return False" of line 142: a rejected action
\* falls through to the post-turn phase
handle_action_fallthrough(s, action) ==
  IF action = NoAction
  THEN {[ret |-> FALSE, s |-> s]}
  ELSE UNION {
    LET s1 == IF o.exc = "Impossible"
              THEN Call([Call(s, "perform") EXCEPT
                           !.e.messages = add_message(@, "Impossible")],
                        "add_message")
              ELSE Call(s, "perform")
    IN {[ret |-> TRUE,
         s |-> Call(Call([s1 EXCEPT !.e = update_fov(e2)],
                         "handle_enemy_turns"), "update_fov")] :
          e2 \in handle_enemy_turns(IF o.exc = "Impossible" THEN s1.e ELSE o.e)}
    : o \in perform(s.e, action)}

\* handle_action without the update_fov of line 146
handle_action_no_fov(s, action) ==
  IF action = NoAction
  THEN {[ret |-> FALSE, s |-> s]}
  ELSE UNION {
    IF o.exc = "Impossible"
    THEN {[ret |-> FALSE,
           s |-> Call([Call(s, "perform") EXCEPT
                         !.e.messages = add_message(@, "Impossible")],
                      "add_message")]}
    ELSE {[ret |-> TRUE,
           s |-> Call([Call(s, "perform") EXCEPT !.e = e2], "handle_enemy_turns")] :
            e2 \in handle_enemy_turns(o.e)}
    : o \in perform(s.e, action)}

\* EventHandler.handle_action: the outcomes [ret: what it returns, s]
handle_action(s, action) ==
  IF action = NoAction
  THEN {[ret |-> FALSE, s |-> s]}
  ELSE UNION {
    IF o.exc = "Impossible"
    THEN {[ret |-> FALSE,
           s |-> Call([Call(s, "perform") EXCEPT
                         !.e.messages = add_message(@, "Impossible")],
                      "add_message")]}
    ELSE {[ret |-> TRUE,
           s |-> Call(Call([Call(s, "perform") EXCEPT !.e = update_fov(e2)],
                           "handle_enemy_turns"), "update_fov")] :
            e2 \in handle_enemy_turns(o.e)}
    : o \in perform(s.e, action)}

\* what handle_events yields: the handler it returns, and whether that is
\* self, the popup's parent or a handler built for this event; or a raise
Return(h, s, how) == [tag |-> "Return", h |-> h, how |-> how, exc |-> "none", s |-> s]
Raise(exc, s) == [tag |-> "Raise", h |-> NoHandler, how |-> "raised", exc |-> exc, s |-> s]

\* a handler an ev_* method returned: PopupMessage returns its parent, every
\* other method a handler it has just built
How(h) == IF h.cls = "PopupMessage" THEN "parent" ELSE "new"

\* the handler itself after an ev_* method ran on it (HistoryViewer moves
\* its own cursor)
Self(h, r) == IF r.h = NoHandler THEN h ELSE r.h

\* BaseEventHandler.handle_events
BaseEventHandler_handle_events(h, s, ev) ==
  { CASE r.tag = "Raise" -> Raise(r.exc, r.s)
      [] r.tag = "Handler" -> Return(r.h, r.s, How(h))
      [] r.tag = "Action" -> Raise("AssertionError", r.s)
      [] r.tag = "None" -> Return(Self(h, r), r.s, "self")
    : r \in dispatch(h, s, ev) }

\* EventHandler.handle_events without the is_alive test of lines 125-126
EventHandler_handle_events_no_alive_test(h, s, ev) ==
  UNION {
    CASE r.tag = "Raise" -> {Raise(r.exc, r.s)}
      [] r.tag = "Handler" -> {Return(r.h, r.s, How(h))}
      [] OTHER ->
         { IF t.ret
           THEN Return(MainGameEventHandler, t.s, "new")
           ELSE Return(Self(h, r), t.s, "self")
           : t \in handle_action(r.s, r.a) }
    : r \in dispatch(h, s, ev) }

\* EventHandler.handle_events with the enemy turns and the visibility update
\* run for a returned handler too: a change of mode costs a turn
EventHandler_handle_events_mode_costs_turn(h, s, ev) ==
  UNION {
    CASE r.tag = "Raise" -> {Raise(r.exc, r.s)}
      [] r.tag = "Handler" ->
         { Return(r.h,
                  Call(Call([r.s EXCEPT !.e = update_fov(e2)],
                            "handle_enemy_turns"), "update_fov"),
                  How(h)) : e2 \in handle_enemy_turns(r.s.e) }
      [] OTHER ->
         { IF t.ret
           THEN IF ~t.s.e.is_alive
                THEN Return(GameOverEventHandler, t.s, "new")
                ELSE Return(MainGameEventHandler, t.s, "new")
           ELSE Return(Self(h, r), t.s, "self")
           : t \in handle_action(r.s, r.a) }
    : r \in dispatch(h, s, ev) }

\* EventHandler.handle_events
EventHandler_handle_events(h, s, ev) ==
  UNION {
    CASE r.tag = "Raise" -> {Raise(r.exc, r.s)}
      [] r.tag = "Handler" -> {Return(r.h, r.s, How(h))}
      [] OTHER ->
         { IF t.ret
           THEN IF ~t.s.e.is_alive
                THEN Return(GameOverEventHandler, t.s, "new")
                ELSE Return(MainGameEventHandler, t.s, "new")
           ELSE Return(Self(h, r), t.s, "self")
           : t \in handle_action(r.s, r.a) }
    : r \in dispatch(h, s, ev) }

\* handler.handle_events(event), by the class of the handler
handle_events(h, s, ev) ==
  IF h.cls \in EventHandlerClasses
  THEN EventHandler_handle_events(h, s, ev)
  ELSE BaseEventHandler_handle_events(h, s, ev)

----------------------------------------------------------------------------
(* main.py *)

\* save_game without the isinstance test of line 12
save_game_any_handler(h, s) == Call([s EXCEPT !.file = save_as(s.e)], "save_as")

\* save_game
save_game(h, s) ==
  IF h.cls \in EventHandlerClasses
  THEN Call([s EXCEPT !.file = save_as(s.e)], "save_as")
  ELSE s

\* exceptions the clause "except Exception" (line 45) catches: every one but
\* SystemExit and exceptions.QuitWithoutSaving, the deliberate quit signals
IsException(exc) == exc \notin {"SystemExit", "QuitWithoutSaving"}

\* lines 45-50 and, for what they raise, lines 56-58: print_exc, then for a
\* handler with an engine traceback.format_exec, which the traceback module
\* does not have: the AttributeError leaves the inner try and reaches
\* "except BaseException", which saves and re-raises
main_except_Exception(h, s) ==
  IF h.cls \in EventHandlerClasses
  THEN [h |-> h, s |-> save_game(h, Call(s, "print_exc")), proc |-> "AttributeError"]
  ELSE [h |-> h, s |-> Call(s, "print_exc"), proc |-> "running"]

\* lines 51-55: QuitWithoutSaving is re-raised, SystemExit saves first
main_except_exit(h, s, exc) ==
  IF exc = "QuitWithoutSaving"
  THEN [h |-> h, s |-> s, proc |-> "QuitWithoutSaving"]
  ELSE [h |-> h, s |-> save_game(h, s), proc |-> "SystemExit"]

\* lines 41-58 for one event, o the outcome of handler.handle_events(event);
\* next is the handler the loop goes on with after a return
main_event(h, o, next) ==
  IF o.tag = "Return" THEN [h |-> next, s |-> o.s, proc |-> "running"]
  ELSE IF IsException(o.exc) THEN main_except_Exception(h, o.s)
  ELSE main_except_exit(h, o.s, o.exc)

----------------------------------------------------------------------------
(* The events fed to the loop *)

Keys == {KeySym[k] : k \in DOMAIN KeySym}

\* modifier states of a key-down: every key is pressed bare, the keys of
\* ModKeys also with modifiers held
Mods == {{"LSHIFT"}, {"RCTRL"}, {"RSHIFT", "LALT"}}

ModKeys == {KeySym.PERIOD, KeySym.UP, KeySym.RIGHT, KeySym.KP_1, KeySym.Y, KeySym.A}

KeyDowns ==
  {KeyDown(sym, {}) : sym \in Keys} \cup
  {KeyDown(sym, mod) : sym \in ModKeys, mod \in Mods}

MouseTiles == {<<x, y>> : x \in -1..2, y \in 0..2}

MouseButtons == {1, 3}

----------------------------------------------------------------------------
(* Spec: the mode machine.  Each step is one turn of the loop with one     *)
(* event: the event is handled by the current handler, and the loop goes   *)
(* on with the handler that handle_events returned.                        *)

Init ==
  /\ handler = MainMenu
  /\ engine = NoEngine
  /\ file \in {NoFile, CorruptFile, OtherFile, save_as(SavedEngine)}
  /\ proc = "running"
  /\ calls = <<>>
  /\ returned = [h |-> NoHandler, how |-> "none"]
  /\ pending = <<>>

Handle(ev) ==
  /\ proc = "running"
  /\ \E o \in handle_events(handler, [e |-> engine, file |-> file, calls |-> <<>>], ev) :
       LET m == main_event(handler, o, o.h) IN
       /\ (\E i \in DOMAIN m.s.calls : m.s.calls[i] = "add_message")
            => MessageCount(m.s.e.messages) <= MaxMsgs
       /\ handler' = m.h
       /\ engine' = m.s.e
       /\ file' = m.s.file
       /\ calls' = m.s.calls
       /\ proc' = m.proc
       /\ returned' = [h |-> o.h, how |-> o.how]
       /\ UNCHANGED pending

KeyDownEvent == \E ev \in KeyDowns : Handle(ev)

MouseMotionEvent == \E t \in MouseTiles : Handle(MouseMotion(t))

MouseButtonDownEvent ==
  \E t \in MouseTiles, b \in MouseButtons : Handle(MouseButtonDown(t, b))

QuitEvent == Handle(Quit)

OtherEvent == Handle(KeyUp)

Next ==
  \/ KeyDownEvent
  \/ MouseMotionEvent
  \/ MouseButtonDownEvent
  \/ QuitEvent
  \/ OtherEvent

Spec == Init /\ [][Next]_vars


----------------------------------------------------------------------------
(* MainSpec: main() with line 44 as written.  handler is main()'s local    *)
(* variable: every event goes to it, and what handle_events returns is     *)
(* dropped.  tcod.event.wait() delivers the events in batches; the try of  *)
(* line 41 wraps the whole for loop, so a caught exception abandons the    *)
(* rest of the batch.                                                      *)

\* the events a batch is made of
BatchEvents ==
  {KeyDown(sym, {}) : sym \in {KeySym.N, KeySym.C, KeySym.Q, KeySym.ESCAPE, KeySym.A}}
  \cup {Quit, KeyUp, MouseMotion(<<0, 0>>), MouseButtonDown(<<0, 0>>, 1)}

Batches == UNION {[1..n -> BatchEvents] : n \in 1..MaxBatch}

\* lines 37-39 and 42: a frame is drawn, then wait() blocks for a batch
MainWait ==
  /\ proc = "running"
  /\ pending = <<>>
  /\ pending' \in Batches
  /\ UNCHANGED <<handler, engine, file, proc, calls, returned>>

\* lines 43-58 for the next event of the batch
MainHandleEvent ==
  /\ proc = "running"
  /\ pending # <<>>
  /\ \E o \in handle_events(handler, [e |-> engine, file |-> file, calls |-> <<>>],
                            Head(pending)) :
       LET m == main_event(handler, o, handler) IN
       /\ (\E i \in DOMAIN m.s.calls : m.s.calls[i] = "add_message")
            => MessageCount(m.s.e.messages) <= MaxMsgs
       /\ handler' = m.h
       /\ engine' = m.s.e
       /\ file' = m.s.file
       /\ calls' = m.s.calls
       /\ proc' = m.proc
       /\ returned' = [h |-> o.h, how |-> o.how]
       /\ pending' = IF o.tag = "Return" THEN Tail(pending) ELSE <<>>

MainNext ==
  \/ MainWait
  \/ MainHandleEvent

MainSpec == Init /\ [][MainNext]_vars


----------------------------------------------------------------------------
(* Properties *)

Range(seq) == {seq[i] : i \in DOMAIN seq}

\* the state the handler's methods see when the next event arrives
S == [e |-> engine, file |-> file, calls |-> <<>>]

\* one turn of the loop for event ev in the current state: what main() is
\* left with, for every outcome of handle_events
Turns(ev) == {main_event(handler, o, o.h) : o \in handle_events(handler, S, ev)}

\* the last event submitted an action and perform() raised Impossible
Rejected(c) == Len(c) >= 2 /\ c[1] = "perform" /\ c[2] = "add_message"

\* the last event submitted an action and perform() returned
Advanced(c) == Len(c) >= 1 /\ c[1] = "perform" /\ ~Rejected(c)

IsTurnCall(c) == c \in {"perform", "handle_enemy_turns", "update_fov"}

\* C1: when the action an event submits is rejected (perform raises
\* Impossible), no turn elapses: neither handle_enemy_turns nor update_fov
\* runs, the engine is as before but for the log, the log holds exactly one
\* message more (the reason), the same handler is returned, and neither the
\* save file nor the process changes.
C1_RejectedNoTurn ==
  [][ Rejected(calls') =>
        /\ calls' = <<"perform", "add_message">>
        /\ returned'.how = "self"
        /\ handler' = handler
        /\ engine' = [engine EXCEPT !.messages = add_message(@, "Impossible")]
        /\ MessageCount(engine'.messages) = MessageCount(engine.messages) + 1
        /\ file' = file
        /\ proc' = "running" ]_vars

\* a rejected action in a mode other than the in-play mode
C1_Witness ==
  /\ Rejected(calls)
  /\ handler.cls \in InventoryClasses \cup SelectIndexClasses

\* C2: after an action advanced the turn, the handler handle_events returns
\* is a newly built one: GameOverEventHandler if and only if the player is
\* not alive after the enemy turns, MainGameEventHandler otherwise.
C2_AdvancedMode ==
  Advanced(calls) =>
    /\ proc = "running"
    /\ returned.how = "new"
    /\ handler = returned.h
    /\ (handler.cls = "GameOverEventHandler") <=> ~engine.is_alive
    /\ engine.is_alive => handler = MainGameEventHandler
    /\ handler.cls \in {"GameOverEventHandler", "MainGameEventHandler"}

\* the player died in the enemy turns of a turn that advanced
C2_Witness ==
  /\ Advanced(calls)
  /\ handler.cls = "GameOverEventHandler"
  /\ ~engine.is_alive

\* C3: an event performs at most one action; an action that advances the
\* turn is followed, within the same event, by handle_enemy_turns and then
\* update_fov, once each; a rejected one by the reason message only; an
\* event without an action runs neither.  So whenever the next event is
\* read, visibility is the one computed from the player's tile.
C3_PostTurnOnce ==
  /\ SelectSeq(calls, IsTurnCall) \in
       {<<>>, <<"perform">>, <<"perform", "handle_enemy_turns", "update_fov">>}
  /\ Advanced(calls) => calls = <<"perform", "handle_enemy_turns", "update_fov">>
  /\ returned.how \in {"raised", "parent"} => SelectSeq(calls, IsTurnCall) = <<>>
  /\ engine.exists => engine.fov = <<engine.px, engine.py>>

\* a turn in which the player moved
C3_Witness ==
  /\ calls = <<"perform", "handle_enemy_turns", "update_fov">>
  /\ <<engine.px, engine.py>> # <<SavedEngine.px, SavedEngine.py>>
  /\ engine.fov = <<engine.px, engine.py>>

\* C4: in the top-level loop, after an event is handled the current handler
\* is the one handle_events returned for it.
C4_LoopFollowsReturnedHandler ==
  (proc = "running" /\ returned.how \in {"self", "new", "parent"}) =>
    handler = returned.h

\* C5: an unexpected exception raised while an event is handled does not end
\* the process: it is caught, the trace is added to the message log when the
\* handler holds an engine, and the loop goes on in the same mode.
C5_ExceptionsAreSurvived ==
  "print_exc" \in Range(calls) =>
    /\ proc = "running"
    /\ handler.cls \in EventHandlerClasses =>
         /\ engine.messages # <<>>
         /\ engine.messages[Len(engine.messages)].text = "traceback"


\* the events that ask a game-over handler to quit
GameOverQuits == {Quit} \cup {KeyDown(KeySym.ESCAPE, mod) : mod \in {{}} \cup Mods}

\* C6: in GameOver the Escape key and the window-quit event delete the save
\* file if there is one and raise QuitWithoutSaving, which main() re-raises
\* without saving: a process that ended by quitting from GameOver leaves no
\* save file, whether or not there was one.
C6_GameOverQuitDeletesSave ==
  /\ (proc = "running" /\ handler.cls = "GameOverEventHandler") =>
       \A ev \in GameOverQuits, f \in {file, NoFile} :
         \A o \in handle_events(handler, [S EXCEPT !.file = f], ev) :
           LET m == main_event(handler, o, o.h) IN
           /\ o.tag = "Raise" /\ o.exc = "QuitWithoutSaving"
           /\ m.proc = "QuitWithoutSaving"
           /\ m.s.file = NoFile
           /\ m.s.calls = IF f = NoFile THEN <<>> ELSE <<"remove">>
           /\ m.s.e = engine
  /\ proc = "QuitWithoutSaving" =>
       /\ handler.cls = "GameOverEventHandler"
       /\ file = NoFile
       /\ "save_as" \notin Range(calls)

\* the process ended by a quit from GameOver that removed the save file
C6_Witness ==
  /\ proc = "QuitWithoutSaving"
  /\ handler.cls = "GameOverEventHandler"
  /\ calls = <<"remove">>
  /\ file = NoFile

\* the explicit quits of a game in progress: the window-quit event, and
\* Escape in the in-play mode
InGameQuits(h) ==
  {Quit} \cup
  (IF h.cls = "MainGameEventHandler"
   THEN {KeyDown(KeySym.ESCAPE, mod) : mod \in {{}} \cup Mods}
   ELSE {})

\* the explicit quits of a handler without an engine
MenuQuits(h) ==
  {Quit} \cup
  (IF h.cls = "MainMenu"
   THEN {KeyDown(sym, mod) : sym \in {KeySym.Q, KeySym.ESCAPE}, mod \in {{}} \cup Mods}
   ELSE {})

\* C7: an explicit quit while a game is in progress (any handler with an
\* engine but GameOver) writes the engine to the save file and ends the
\* process; a quit from a handler without an engine (MainMenu, a popup over
\* it) ends the process, writes nothing and leaves the save file as it was.
C7_QuitSavesGameInProgress ==
  /\ (proc = "running" /\ handler.cls \in EventHandlerClasses \ {"GameOverEventHandler"}) =>
       \A ev \in InGameQuits(handler) : \A m \in Turns(ev) :
         /\ m.proc = "SystemExit"
         /\ m.s.file = save_as(engine)
         /\ m.s.e = engine
         /\ m.s.calls = <<"save_as">>
  /\ (proc = "running" /\ handler.cls \in {"MainMenu", "PopupMessage"}) =>
       \A ev \in MenuQuits(handler) : \A m \in Turns(ev) :
         /\ m.proc = "SystemExit"
         /\ m.s.file = file
         /\ m.s.calls = <<>>
  /\ proc = "SystemExit" =>
       IF handler.cls \in EventHandlerClasses
       THEN file = save_as(engine) /\ calls = <<"save_as">>
       ELSE calls = <<>> /\ engine = NoEngine

\* the process ended by a quit from the drop menu and the file holds the
\* engine as play left it, not as it was loaded
C7_Witness ==
  /\ proc = "SystemExit"
  /\ handler.cls = "InventoryDropHandler"
  /\ file = save_as(engine)
  /\ engine # SavedEngine

\* C8: Continue at the main menu enters the in-play mode only when the save
\* loads: a missing file yields the popup "No saved games to load." over
\* the menu, any other failure (a blob that is not an Engine included) a
\* popup over the menu with the error text, and neither builds an engine nor
\* touches the file.  Any key in such a popup returns the menu it came from.
\* An engine exists only once a save file has loaded.
C8_ContinueReportsLoadFailure ==
  /\ (proc = "running" /\ handler = MainMenu) =>
       \A mod \in {{}} \cup Mods :
         handle_events(handler, S, KeyDown(KeySym.C, mod)) =
           CASE file.kind = "absent" ->
                  {Return(PopupMessage(MainMenu, "No saved games to load."), S, "new")}
             [] file.kind = "corrupt" ->
                  {Return(PopupMessage(MainMenu,
                     "Failed to load save:\nInput format not supported by decoder"),
                     S, "new")}
             [] file.kind = "other" ->
                  {Return(PopupMessage(MainMenu, "Failed to load save:\n"), S, "new")}
             [] file.kind = "engine" ->
                  {Return(MainGameEventHandler,
                          [S EXCEPT !.e = file.e, !.calls = <<"load_game">>], "new")}
  /\ (proc = "running" /\ handler.cls = "PopupMessage") =>
       /\ handler.parent = "MainMenu"
       /\ engine = NoEngine
       /\ file.kind # "engine"
       /\ (handler.text = "No saved games to load.") <=> (file.kind = "absent")
       /\ \A ev \in KeyDowns :
            handle_events(handler, S, ev) = {Return(MainMenu, S, "parent")}
  /\ (proc = "running" /\ engine.exists) =>
       /\ handler.cls \in EventHandlerClasses
       /\ file.kind = "engine"

\* a key was pressed in the popup shown for a blob that is not an Engine:
\* the menu is back, no engine was built, the file is as it was
C8_Witness ==
  /\ returned = [h |-> MainMenu, how |-> "parent"]
  /\ handler = MainMenu
  /\ file = OtherFile
  /\ engine = NoEngine

\* C9: in an inventory mode a letter key whose slot is at or past the end of
\* the inventory adds "Invalid entry" to the log and stays in the mode: no
\* exception, no action, no turn.
C9_InvalidEntryKeepsMode ==
  (proc = "running" /\ handler.cls \in InventoryClasses) =>
    \A index \in Len(engine.items)..25 :
      handle_events(handler, S, KeyDown(KeySym.A + index, {})) =
        {Return(handler,
                [S EXCEPT !.e.messages = add_message(@, "Invalid entry"),
                          !.calls = <<"add_message">>],
                "self")}

\* C10: engine.mouse_location is always a tile of the map.
C10_CursorInBounds ==
  engine.exists =>
    in_bounds(engine, engine.mouse_location[1], engine.mouse_location[2])

\* in a targeting mode entered from an item, the cursor has been moved to the
\* far corner of the map, away from the player
C10_Witness ==
  /\ handler.cls = "AreaRangedAttackHandler"
  /\ engine.mouse_location = <<engine.width - 1, engine.height - 1>>
  /\ engine.mouse_location # <<engine.px, engine.py>>

----------------------------------------------------------------------------
(* CursorSpec: the targeting cursor on a map of full size.  A game saved    *)
(* with the player at (10, 10) is continued, a targeting mode is entered    *)
(* (look with "/", a ranged attack by activating the item of slot a), the   *)
(* cursor is moved with movement keys and modifiers, and the mode is left   *)
(* with Escape.                                                            *)

CursorKeys ==
  {KeySym.UP, KeySym.DOWN, KeySym.LEFT, KeySym.RIGHT, KeySym.HOME,
   KeySym.PAGEDOWN, KeySym.KP_9, KeySym.B}

CursorMods ==
  {{}, {"LSHIFT"}, {"RCTRL"}, {"LALT"}, {"RSHIFT", "LCTRL"},
   {"LSHIFT", "RCTRL", "RALT"}}

CursorInit ==
  /\ handler = MainMenu
  /\ engine = NoEngine
  /\ file \in {save_as(FullMapEngine(<<k>>)) : k \in {"single", "area"}}
  /\ proc = "running"
  /\ calls = <<>>
  /\ returned = [h |-> NoHandler, how |-> "none"]
  /\ pending = <<>>

CursorContinue ==
  /\ handler = MainMenu
  /\ Handle(KeyDown(KeySym.C, {}))

CursorEnterLook ==
  /\ handler = MainGameEventHandler
  /\ Handle(KeyDown(KeySym.SLASH, {}))

CursorOpenInventory ==
  /\ handler = MainGameEventHandler
  /\ Handle(KeyDown(KeySym.I, {}))

CursorActivateItem ==
  /\ handler = InventoryActivateHandler
  /\ Handle(KeyDown(KeySym.A, {}))

CursorMove ==
  /\ handler.cls \in SelectIndexClasses
  /\ \E key \in CursorKeys, mod \in CursorMods : Handle(KeyDown(key, mod))

CursorCancel ==
  /\ handler.cls \in SelectIndexClasses
  /\ Handle(KeyDown(KeySym.ESCAPE, {}))

CursorNext ==
  \/ CursorContinue
  \/ CursorEnterLook
  \/ CursorOpenInventory
  \/ CursorActivateItem
  \/ CursorMove
  \/ CursorCancel

CursorSpec == CursorInit /\ [][CursorNext]_vars

\* the multiplier the held modifiers stand for: 5 for shift, 10 for control,
\* 20 for alt, multiplied
C11_Multiplier(mod) ==
  LET shift == mod \cap {"LSHIFT", "RSHIFT"} # {}
      ctrl == mod \cap {"LCTRL", "RCTRL"} # {}
      alt == mod \cap {"LALT", "RALT"} # {}
  IN CASE shift /\ ctrl /\ alt -> 1000
       [] shift /\ ctrl /\ ~alt -> 50
       [] shift /\ ~ctrl /\ alt -> 100
       [] ~shift /\ ctrl /\ alt -> 200
       [] shift /\ ~ctrl /\ ~alt -> 5
       [] ~shift /\ ctrl /\ ~alt -> 10
       [] ~shift /\ ~ctrl /\ alt -> 20
       [] OTHER -> 1

\* a coordinate clamped to 0 .. size - 1
C11_Clamp(v, size) == IF v < 0 THEN 0 ELSE IF v > size - 1 THEN size - 1 ELSE v

\* where a movement key with modifiers held puts the cursor
C11_Moved(key, mod) ==
  << C11_Clamp(engine.mouse_location[1] + MOVE_KEYS[key][1] * C11_Multiplier(mod),
               engine.width),
     C11_Clamp(engine.mouse_location[2] + MOVE_KEYS[key][2] * C11_Multiplier(mod),
               engine.height) >>

\* C11: a step that enters a targeting mode leaves the cursor on the
\* player's tile.  In a targeting mode every movement key, with every set of
\* modifiers held, does exactly this: the cursor moves by (dx, dy) times the
\* product of 5 (shift), 10 (control) and 20 (alt) and is clamped to the map,
\* nothing else of the engine changes, no engine call is made and the same
\* handler is kept.  With the player at (10, 10) on the 80 x 43 map,
\* shift+down in look mode from the player's tile gives (10, 15).
C11_CursorMoves ==
  /\ [][ (handler.cls \notin SelectIndexClasses /\ handler'.cls \in SelectIndexClasses)
          => engine'.mouse_location = <<engine'.px, engine'.py>> ]_vars
  /\ [] ( (proc = "running" /\ handler.cls \in SelectIndexClasses) =>
           /\ \A key \in DOMAIN MOVE_KEYS, mod \in CursorMods \cup Mods :
                Turns(KeyDown(key, mod)) =
                  { [h |-> handler,
                     s |-> [S EXCEPT !.e.mouse_location = C11_Moved(key, mod)],
                     proc |-> "running"] }
           /\ ( /\ handler = LookHandler
                /\ <<engine.width, engine.height>> = <<80, 43>>
                /\ <<engine.px, engine.py>> = <<10, 10>>
                /\ engine.mouse_location = <<10, 10>> )
              => \A m \in Turns(KeyDown(KeySym.DOWN, {"LSHIFT"})) :
                   m.s.e.mouse_location = <<10, 15>> )

\* look mode on the 80 x 43 map, the player at (10, 10), the cursor five
\* tiles below the player
C11_Witness ==
  /\ handler = LookHandler
  /\ <<engine.width, engine.height>> = <<80, 43>>
  /\ <<engine.px, engine.py>> = <<10, 10>>
  /\ engine.mouse_location = <<10, 15>>
  /\ calls = <<>>
  /\ returned.how = "self"

\* what a confirm key yields with the cursor on tile t, the cursor itself
\* left where it is
C12_Confirmed(t) ==
  { [o EXCEPT !.s.e.mouse_location = engine.mouse_location] :
      o \in handle_events(handler, [S EXCEPT !.e.mouse_location = t],
                          KeyDown(KeySym.RETURN, {})) }

\* C12: in a targeting mode a left click on a tile of the map resolves the
\* targeting with that tile as a confirm key does with the cursor tile, any
\* other click returns the in-play handler, and no click raises.
C12_MouseClickResolves ==
  (proc = "running" /\ handler.cls \in SelectIndexClasses) =>
    \A t \in MouseTiles, b \in MouseButtons :
      LET clicked == handle_events(handler, S, MouseButtonDown(t, b)) IN
      /\ \A o \in clicked : o.tag = "Return"
      /\ IF in_bounds(engine, t[1], t[2]) /\ b = 1
         THEN clicked = C12_Confirmed(t)
         ELSE clicked = {Return(MainGameEventHandler, S, "new")}

\* the six modifier keys
C13_ModifierKeys ==
  {KeySym.LSHIFT, KeySym.RSHIFT, KeySym.LCTRL, KeySym.RCTRL, KeySym.LALT,
   KeySym.RALT}

\* the keys a mode takes for itself: the slot letters a-z in the inventory
\* modes, the movement and confirm keys in the targeting modes
C13_Consumed(cls) ==
  IF cls \in InventoryClasses
  THEN KeySym.A .. KeySym.Z
  ELSE DOMAIN MOVE_KEYS \cup CONFIRM_KEYS

\* C13: in every ask-user mode a key-down of a modifier key keeps the
\* handler and changes nothing, and a key-down of any other key the mode
\* does not consume returns the in-play handler with the engine untouched:
\* no action, no engine call, no turn.
C13_DefaultExit ==
  (proc = "running" /\ handler.cls \in InventoryClasses \cup SelectIndexClasses) =>
    \A ev \in KeyDowns :
      /\ ev.sym \in C13_ModifierKeys =>
           Turns(ev) = {[h |-> handler, s |-> S, proc |-> "running"]}
      /\ ev.sym \notin C13_ModifierKeys \cup C13_Consumed(handler.cls) =>
           Turns(ev) = {[h |-> MainGameEventHandler, s |-> S, proc |-> "running"]}

\* the eight directions with the key each family has for them
C14_Directions ==
  { [d |-> <<0, -1>>, arrow |-> KeySym.UP, numpad |-> KeySym.KP_8, vi |-> KeySym.K],
    [d |-> <<0, 1>>, arrow |-> KeySym.DOWN, numpad |-> KeySym.KP_2, vi |-> KeySym.J],
    [d |-> <<-1, 0>>, arrow |-> KeySym.LEFT, numpad |-> KeySym.KP_4, vi |-> KeySym.H],
    [d |-> <<1, 0>>, arrow |-> KeySym.RIGHT, numpad |-> KeySym.KP_6, vi |-> KeySym.L],
    [d |-> <<-1, -1>>, arrow |-> KeySym.HOME, numpad |-> KeySym.KP_7, vi |-> KeySym.Y],
    [d |-> <<-1, 1>>, arrow |-> KeySym.END, numpad |-> KeySym.KP_1, vi |-> KeySym.B],
    [d |-> <<1, -1>>, arrow |-> KeySym.PAGEUP, numpad |-> KeySym.KP_9, vi |-> KeySym.U],
    [d |-> <<1, 1>>, arrow |-> KeySym.PAGEDOWN, numpad |-> KeySym.KP_3, vi |-> KeySym.N] }

C14_KeysOf(f) == {f.arrow, f.numpad, f.vi}

\* C14: the movement keys are the 24 keys of the eight directions; the three
\* keys of a direction map to its (dx, dy); the vectors are exactly the eight
\* non-zero king moves and no key belongs to two directions.  In the in-play
\* mode each key of a direction, whatever modifiers are held, submits
\* BumpAction(player, dx, dy) and nothing else, so the three aliases give the
\* same turn outcomes.
C14_AliasesSubmitSameMove ==
  /\ DOMAIN MOVE_KEYS = UNION {C14_KeysOf(f) : f \in C14_Directions}
  /\ Cardinality(DOMAIN MOVE_KEYS) = 24
  /\ {MOVE_KEYS[k] : k \in DOMAIN MOVE_KEYS} =
       {<<dx, dy>> : dx \in -1..1, dy \in -1..1} \ {<<0, 0>>}
  /\ \A f \in C14_Directions, g \in C14_Directions :
       f # g => C14_KeysOf(f) \cap C14_KeysOf(g) = {}
  /\ \A f \in C14_Directions : \A k \in C14_KeysOf(f) : MOVE_KEYS[k] = f.d
  /\ (proc = "running" /\ handler = MainGameEventHandler) =>
       \A f \in C14_Directions :
         \A ev \in {e \in KeyDowns : e.sym \in C14_KeysOf(f)} :
           /\ dispatch(handler, S, ev) = {RAction(BumpAction(f.d[1], f.d[2]), S)}
           /\ Turns(ev) = Turns(KeyDown(f.arrow, {}))

\* a turn in which the player moved up and to the right, the direction of
\* PageUp, numpad 9 and u
C14_Witness ==
  /\ handler = MainGameEventHandler
  /\ returned.how = "new"
  /\ calls = <<"perform", "handle_enemy_turns", "update_fov">>
  /\ <<engine.px, engine.py>> = <<SavedEngine.px + 1, SavedEngine.py - 1>>

\* every event the loop is fed
C15_Events ==
  KeyDowns \cup {MouseMotion(tl) : tl \in MouseTiles}
           \cup {MouseButtonDown(tl, b) : tl \in MouseTiles, b \in MouseButtons}
           \cup {Quit, KeyUp}

\* C15: the game-over handler is only ever entered by a step in which an
\* action advanced the turn and the player was then found not alive, so
\* whenever it is the handler the player is not alive.  In it no event
\* submits an action or makes any engine call: an event either returns the
\* same handler, with nothing of the engine changed but the cursor, or
\* raises QuitWithoutSaving, which ends the process.
C15_GameOverIsTerminal ==
  /\ [][ (handler'.cls = "GameOverEventHandler" /\ handler.cls # "GameOverEventHandler")
          => /\ Advanced(calls')
             /\ returned'.how = "new"
             /\ ~engine'.is_alive ]_vars
  /\ [] ( handler.cls = "GameOverEventHandler" =>
           /\ engine.exists /\ ~engine.is_alive
           /\ proc = "running" =>
                \A ev \in C15_Events : \A o \in handle_events(handler, S, ev) :
                  /\ \A c \in Range(o.s.calls) : ~IsTurnCall(c)
                  /\ o.tag = "Return" =>
                       /\ o.h = handler /\ o.how = "self"
                       /\ o.s.calls = <<>>
                       /\ o.s.file = file
                       /\ [o.s.e EXCEPT !.mouse_location = engine.mouse_location] = engine
                  /\ o.tag = "Raise" =>
                       /\ o.exc = "QuitWithoutSaving"
                       /\ main_event(handler, o, o.h).proc # "running" )

\* an event was handled in the game-over handler and the handler stayed
C15_Witness ==
  /\ handler = GameOverEventHandler
  /\ returned = [h |-> GameOverEventHandler, how |-> "self"]
  /\ calls = <<>>
  /\ proc = "running"
  /\ ~engine.is_alive

----------------------------------------------------------------------------
(* HistorySpec: the history view over a message log of 1 .. MaxHistory      *)
(* entries.  A saved game is continued, the history is opened with v, the   *)
(* cursor is moved with the navigation keys, Home and End, and the view is  *)
(* left with any other key.                                                 *)

HistoryInit ==
  /\ handler = MainMenu
  /\ engine = NoEngine
  /\ file \in {save_as(HistoryEngine(n)) : n \in 1..MaxHistory}
  /\ proc = "running"
  /\ calls = <<>>
  /\ returned = [h |-> NoHandler, how |-> "none"]
  /\ pending = <<>>

HistoryContinue ==
  /\ handler = MainMenu
  /\ Handle(KeyDown(KeySym.C, {}))

HistoryOpen ==
  /\ handler = MainGameEventHandler
  /\ Handle(KeyDown(KeySym.V, {}))

HistoryNavigate ==
  /\ handler.cls = "HistoryViewer"
  /\ \E key \in DOMAIN CURSOR_Y_KEYS \cup {KeySym.HOME, KeySym.END} :
       Handle(KeyDown(key, {}))

HistoryExit ==
  /\ handler.cls = "HistoryViewer"
  /\ \E key \in {KeySym.ESCAPE, KeySym.Q, KeySym.RETURN} : Handle(KeyDown(key, {}))

HistoryNext ==
  \/ HistoryContinue
  \/ HistoryOpen
  \/ HistoryNavigate
  \/ HistoryExit

HistorySpec == HistoryInit /\ [][HistoryNext]_vars

\* where a vertical navigation key puts the cursor when every move past an
\* end wraps: past the first entry to the last, past the last to the first
C16_Wrapped(cursor, adjust, length) ==
  IF cursor + adjust < 0 THEN length - 1
  ELSE IF cursor + adjust > length - 1 THEN 0
  ELSE cursor + adjust

\* C16: in the history view each vertical navigation key (up -1, down +1,
\* page up -10, page down +10) keeps the view and moves the cursor by
\* exactly its step when the step stays inside the history, and to the
\* opposite end when the step would pass the first or the last entry, from
\* whatever position.
C16_NavigationWraps ==
  (proc = "running" /\ handler.cls = "HistoryViewer") =>
    \A key \in DOMAIN CURSOR_Y_KEYS :
      Turns(KeyDown(key, {})) =
        { [h |-> [handler EXCEPT
                    !.cursor = C16_Wrapped(handler.cursor, CURSOR_Y_KEYS[key],
                                           Len(engine.messages))],
           s |-> S, proc |-> "running"] }

\* C17: in the inventory modes a key is a slot selection exactly when it is
\* one of the letters a-z, the slot being key - 'a': a letter whose slot
\* holds an item selects that item (in drop mode the outcome is the action
\* DropItem of the item at that index, as performed by the turn), and every
\* key outside a-z is handled by the default-exit rule of the ask-user
\* modes, never as a slot.
C17_SlotKeys ==
  (proc = "running" /\ handler.cls \in InventoryClasses) =>
    \A ev \in KeyDowns :
      LET index == ev.sym - KeySym.A IN
      /\ (ev.sym \in KeySym.A .. KeySym.Z /\ index < Len(engine.items)) =>
           /\ dispatch(handler, S, ev) = on_item_selected(handler, S, index + 1)
           /\ handler.cls = "InventoryDropHandler" =>
                dispatch(handler, S, ev) = {RAction(DropItem(index + 1), S)}
      /\ ev.sym \notin KeySym.A .. KeySym.Z =>
           dispatch(handler, S, ev) = AskUserEventHandler_ev_keydown(handler, S, ev)

\* C18: whenever the handler's ev_* method answers an event with a handler
\* (a change of mode), handle_events returns that handler and nothing else
\* happens: no action is performed, no enemy turn runs, visibility is not
\* recomputed, no message is added, the save file is not touched, and for a
\* handler of a running game or a popup the engine is as before except,
\* at most, for the cursor location.
C18_ModeChangeCostsNothing ==
  proc = "running" =>
    \A ev \in C15_Events :
      LET d == dispatch(handler, S, ev) IN
      (\E r \in d : r.tag = "Handler") =>
        /\ \A r \in d : r.tag = "Handler"
        /\ {o.h : o \in handle_events(handler, S, ev)} = {r.h : r \in d}
        /\ \A o \in handle_events(handler, S, ev) :
             /\ o.tag = "Return"
             /\ \A c \in Range(o.s.calls) : ~IsTurnCall(c) /\ c # "add_message"
             /\ o.s.file = file
             /\ handler.cls # "MainMenu" =>
                  /\ o.s.calls = <<>>
                  /\ [o.s.e EXCEPT !.mouse_location = engine.mouse_location] = engine

\* look mode has just been entered from the in-play mode: the cursor was
\* put on the player's tile and nothing else happened
C18_Witness ==
  /\ handler = LookHandler
  /\ returned = [h |-> LookHandler, how |-> "new"]
  /\ calls = <<>>
  /\ engine = [SavedEngine EXCEPT !.mouse_location = <<SavedEngine.px, SavedEngine.py>>]

\* the modes of a running game other than the in-play and game-over modes
C19_Modes == InventoryClasses \cup SelectIndexClasses \cup {"HistoryViewer"}

\* C19: in every mode of a running game other than in-play and game-over,
\* wherever the cursor is, whatever the inventory holds and wherever the
\* history cursor is, an Escape key-down (with or without modifiers held)
\* has one outcome: the in-play handler is returned and the engine, the
\* file and the process are as before.  So the in-play mode is always one
\* key away.
C19_EscapeUnwinds ==
  (proc = "running" /\ handler.cls \in C19_Modes) =>
    \A mod \in {{}} \cup Mods :
      /\ Turns(KeyDown(KeySym.ESCAPE, mod)) =
           {[h |-> MainGameEventHandler, s |-> S, proc |-> "running"]}
      /\ \A o \in handle_events(handler, S, KeyDown(KeySym.ESCAPE, mod)) :
           o.how = "new"

\* the in-play mode, returned to without a turn from a mode in which the
\* cursor had been used and with an item still carried
C19_Witness ==
  /\ handler = MainGameEventHandler
  /\ returned = [h |-> MainGameEventHandler, how |-> "new"]
  /\ calls = <<>>
  /\ proc = "running"
  /\ engine.items # <<>>
  /\ engine.mouse_location # <<0, 0>>

\* the cursor a key of the history view leaves, for every outcome
C20_CursorAfter(key) == {m.h.cursor : m \in Turns(KeyDown(key, {}))}

\* C20: a step that opens the history view puts the cursor on the last
\* entry of the log.  While the view is open, log_length is the length of
\* the log, the cursor is an index of it (0 <= cursor <= log_length - 1),
\* Home puts the cursor on 0 and End on log_length - 1, and every
\* navigation key leaves the view open with the cursor an index again.
C20_CursorIsValid ==
  /\ [][ (handler.cls # "HistoryViewer" /\ handler'.cls = "HistoryViewer")
          => /\ handler'.log_length = Len(engine'.messages)
             /\ handler'.cursor = Len(engine'.messages) - 1 ]_vars
  /\ [] ( (proc = "running" /\ handler.cls = "HistoryViewer") =>
           /\ handler.log_length = Len(engine.messages)
           /\ 0 <= handler.cursor /\ handler.cursor <= handler.log_length - 1
           /\ C20_CursorAfter(KeySym.HOME) = {0}
           /\ C20_CursorAfter(KeySym.END) = {handler.log_length - 1}
           /\ \A key \in DOMAIN CURSOR_Y_KEYS \cup {KeySym.HOME, KeySym.END} :
                \A m \in Turns(KeyDown(key, {})) :
                  /\ m.proc = "running"
                  /\ m.h.cls = "HistoryViewer"
                  /\ m.h.cursor \in 0 .. (handler.log_length - 1) )

\* the history of a log of 12 entries, the cursor moved from the last entry
\* to the second by a page up
C20_Witness ==
  /\ handler.cls = "HistoryViewer"
  /\ handler.log_length = 12
  /\ handler.cursor = 1
  /\ returned.how = "self"

============================================================================
